---- MODULE Spec2Model ----
(***************************************************************************)
(* A model of the recipe-site pipeline:                                    *)
(*   scripts/scrape_recipes.py  - reading-list extraction, fetch loop,     *)
(*                                store file                               *)
(*   scripts/generate_site.py   - store loading, page rendering, and the   *)
(*                                page's client-side script                *)
(* Python values that can be absent are modelled with explicit markers;    *)
(* property-list values are a tagged union (dict / list / str / int).      *)
(***************************************************************************)
EXTENDS Integers, Sequences, FiniteSets, TLC

VARIABLES
    \* scrape_recipes.py: extraction
    plist,          \* content of ~/Library/Safari/Bookmarks.plist (or a file marker)
    exPc,           \* position of extract_urls_from_safari_reading_list
    exResult,       \* what the extraction produced
    \* scrape_recipes.py: main and the fetch loop
    bookmarks,      \* the sequence main got from the extraction
    fpc,            \* position of main / scrape_all_recipes
    idx,            \* the loop index i of scrape_all_recipes (1-based)
    recipes,        \* the list scrape_all_recipes builds
    log,            \* the run's observable effects: requests, sleeps, store writes
    store,          \* data/recipes.json: StoreAbsent or the sequence of records
    \* generate_site.py: main
    site,           \* site/index.html: SiteAbsent or the document
    genOut,         \* how the last run of the generator's main ended
    clock,          \* datetime.now() at the last generate_html call
    renders,        \* every (input, document) pair generate_html has produced
    \* the generated page's script
    recipesData,        \* const recipesData: the embedded JSON
    searchValue,        \* searchInput.value
    cardDisplay,        \* style.display of each .recipe-card
    gridDisplay,        \* recipesGrid.style.display
    recipeDetailDisplay,\* style.display of the #recipeDetail container
    detailDisplay,      \* style.display of each .recipe-detail panel
    noResultsDisplay,   \* noResults.style.display
    recipeCount,        \* recipeCount.textContent
    history             \* history: the last two events and the view the last click started from

exVars == <<plist, exPc, exResult>>
fetchVars == <<bookmarks, fpc, idx, recipes, log>>
genVars == <<site, genOut, clock, renders>>
uiVars == <<recipesData, searchValue, cardDisplay, gridDisplay, recipeDetailDisplay,
            detailDisplay, noResultsDisplay, recipeCount, history>>

vars == <<plist, exPc, exResult, bookmarks, fpc, idx, recipes, log, store,
          site, genOut, clock, renders,
          recipesData, searchValue, cardDisplay, gridDisplay, recipeDetailDisplay,
          detailDisplay, noResultsDisplay, recipeCount, history>>

(***************************************************************************)
(* Bounds of the model.                                                    *)
(***************************************************************************)
MaxEntries == 2     \* children of the reading-list folder in the title family
MaxFolders == 2     \* children of the root in the structure family
MaxBookmarks == 2   \* bookmarks in one fetch run
MaxClock == 2       \* instants at which the generator can run
MaxRecipes == 2     \* recipes on the generated page

(***************************************************************************)
(* Property-list values (what plistlib.load returns).                      *)
(***************************************************************************)
PInt(n) == [kind |-> "int", v |-> n]
PStr(s) == [kind |-> "str", v |-> s]
PList(xs) == [kind |-> "list", items |-> xs]
PDict(f) == [kind |-> "dict", fields |-> f]
PBool(b) == [kind |-> "bool", v |-> b]

\* Markers that are not plist values.
Absent == [kind |-> "absent"]            \* a key that is not in a mapping
PyNone == [kind |-> "none"]              \* Python's None
Raised(exc) == [kind |-> "raise", exc |-> exc]
Return(v) == [kind |-> "return", value |-> v]

NoFields == [k \in {} |-> Absent]
Field(k, v) == IF v.kind = "absent" THEN NoFields ELSE (k :> v)

\* 'k' in item
HasKey(item, k) == k \in DOMAIN item.fields

\* item.get(k, default)
Get(item, k, default) == IF HasKey(item, k) THEN item.fields[k] ELSE default

\* bool(v): Python truthiness of a value (or None)
Truthy(v) ==
    CASE v.kind = "none" -> FALSE
      [] v.kind = "int"  -> v.v # 0
      [] v.kind = "bool" -> v.v
      [] v.kind = "str"  -> v.v # ""
      [] v.kind = "list" -> Len(v.items) > 0
      [] v.kind = "dict" -> DOMAIN v.fields # {}
      [] OTHER -> FALSE

\* Whether `for x in v` is possible; iterating an int raises TypeError.
Iterable(v) == v.kind \in {"list", "str", "dict"}

\* The items `for x in v` visits that can be mappings.  Iterating a str
\* yields its characters and iterating a dict yields its keys: all of them
\* strings, none a mapping, so one string stands for each of them.
IterItems(v) ==
    CASE v.kind = "list" -> v.items
      [] v.kind = "str"  -> [k \in 1..(IF v.v = "" THEN 0 ELSE 1) |-> PStr("c")]
      [] v.kind = "dict" -> [k \in 1..Cardinality(DOMAIN v.fields) |-> PStr("key")]
      [] OTHER -> <<>>

SentinelName == "com.apple.ReadingList"

IsSentinelFolder(item) ==
    /\ item.kind = "dict"
    /\ HasKey(item, "Title")
    /\ item.fields["Title"].kind = "str"
    /\ item.fields["Title"].v = SentinelName

(***************************************************************************)
(* find_reading_list: the recursive search of scrape_recipes.py.           *)
(***************************************************************************)
RECURSIVE find_reading_list(_), find_in_children(_, _)

find_reading_list(item) ==
    IF item.kind # "dict" THEN PyNone
    ELSE IF IsSentinelFolder(item) THEN Get(item, "Children", PList(<<>>))
    ELSE IF HasKey(item, "Children")
         THEN IF Iterable(item.fields["Children"])
              THEN find_in_children(IterItems(item.fields["Children"]), 1)
              ELSE Raised("TypeError")
         ELSE PyNone

\* for child in item['Children']: result = find_reading_list(child);
\*     if result: return result
find_in_children(children, k) ==
    IF k > Len(children) THEN PyNone
    ELSE LET result == find_reading_list(children[k])
         IN  IF result.kind = "raise" THEN result
             ELSE IF Truthy(result) THEN result
             ELSE find_in_children(children, k + 1)

(***************************************************************************)
(* The per-entry title expression (scrape_recipes.py line 71):             *)
(*   item.get('URIDictionary', {}).get('title', '')                        *)
(*       or item.get('ReadingList', {}).get('Title', 'Untitled')           *)
(* `.get` on a value that is not a mapping raises AttributeError; the      *)
(* right operand of `or` is evaluated only when the left one is falsy.     *)
(***************************************************************************)
entry_title(item) ==
    LET ud == Get(item, "URIDictionary", PDict(NoFields))
    IN  IF ud.kind # "dict" THEN Raised("AttributeError")
        ELSE LET first == Get(ud, "title", PStr(""))
             IN  IF Truthy(first) THEN first
                 ELSE LET rl == Get(item, "ReadingList", PDict(NoFields))
                      IN  IF rl.kind # "dict" THEN Raised("AttributeError")
                          ELSE Get(rl, "Title", PStr("Untitled"))

Returned(us) == [status |-> "returned", urls |-> us, exc |-> ""]
Failed(exc) == [status |-> "raised", urls |-> <<>>, exc |-> exc]

\* for item in reading_list_items: if isinstance(item, dict) and
\*     'URLString' in item: urls.append({...})
RECURSIVE collect_urls(_, _, _)
collect_urls(items, k, urls) ==
    IF k > Len(items) THEN Returned(urls)
    ELSE LET item == items[k]
         IN  IF item.kind = "dict" /\ HasKey(item, "URLString")
             THEN LET title == entry_title(item)
                  IN  IF title.kind = "raise" THEN Failed(title.exc)
                      ELSE collect_urls(items, k + 1,
                               Append(urls, [url |-> item.fields["URLString"].v,
                                             bookmark_title |-> title.v]))
             ELSE collect_urls(items, k + 1, urls)

\* The bookmarks file: missing, unreadable, or a parsed property list.
FileMissing == [kind |-> "missing"]
FileCorrupt == [kind |-> "corrupt"]

extract_urls_from_safari_reading_list(file) ==
    IF file.kind = "missing" THEN Returned(<<>>)
    ELSE IF file.kind = "corrupt" THEN Returned(<<>>)
    ELSE LET reading_list_items == find_reading_list(file)
         IN  IF reading_list_items.kind = "raise" THEN Failed(reading_list_items.exc)
             ELSE IF ~Truthy(reading_list_items) THEN Returned(<<>>)
             ELSE IF ~Iterable(reading_list_items) THEN Failed("TypeError")
             ELSE collect_urls(IterItems(reading_list_items), 1, <<>>)

(***************************************************************************)
(* The bookmark structures the extraction is run on.                       *)
(***************************************************************************)
SeqsUpTo(S, n) == UNION {[1..k -> S] : k \in 0..n}

UrlA == "http://a.com/x"
UrlB == "http://b.org/y"

Entry(url, ud, rl) ==
    PDict(Field("URLString", url) @@ Field("URIDictionary", ud) @@ Field("ReadingList", rl))

Folder(title, children) ==
    PDict(Field("Title", title) @@ Field("Children", children))

\* Title family: one reading-list folder whose entries vary in the two
\* title fields (absent, not a mapping, empty mapping, empty title, title).
URIDictionaryShapes ==
    {Absent, PStr("x"), PDict(NoFields),
     PDict("title" :> PStr("")), PDict("title" :> PStr("Pasta"))}
ReadingListShapes ==
    {Absent, PStr("x"), PDict(NoFields),
     PDict("Title" :> PStr("")), PDict("Title" :> PStr("Saved"))}
TitleEntries ==
    {Entry(PStr(UrlA), ud, rl) : ud \in URIDictionaryShapes, rl \in ReadingListShapes}
TitleFamily ==
    {Folder(Absent, PList(<<Folder(PStr("BookmarksBar"), PList(<<>>)),
                            Folder(PStr(SentinelName), PList(es))>>))
        : es \in SeqsUpTo(TitleEntries, MaxEntries)}

\* Structure family: the root and its folders vary in Title and Children.
EntryA == Entry(PStr(UrlA), PDict("title" :> PStr("Pasta")), Absent)
EntryB == Entry(PStr(UrlB), Absent, PDict("Title" :> PStr("Saved")))
EntryNoUrl == Entry(Absent, PDict("title" :> PStr("Pasta")), Absent)
ChildrenShapes ==
    {Absent, PInt(5), PStr("ab"), PList(<<>>), PList(<<EntryA>>),
     PList(<<EntryB, EntryA>>), PList(<<EntryNoUrl, PStr("x"), EntryB>>),
     PList(<<Folder(PStr(SentinelName), PList(<<EntryB>>))>>),
     PList(<<PList(<<Folder(PStr(SentinelName), PList(<<EntryB>>))>>)>>)}
TopNodes ==
    {PInt(5), PStr("x")}
    \cup {Folder(t, c) : t \in {Absent, PStr("History"), PStr(SentinelName)},
                         c \in ChildrenShapes}
StructureFamily ==
    {Folder(t, PList(fs)) : t \in {Absent, PStr(SentinelName)},
                            fs \in SeqsUpTo(TopNodes, MaxFolders)}
    \cup {Folder(Absent, c) : c \in {Absent, PInt(5), PStr("ab")}}
    \cup {PList(<<f>>) : f \in TopNodes}

Plists == TitleFamily \cup StructureFamily

(***************************************************************************)
(* Claims about the extraction.                                            *)
(***************************************************************************)
\* The folders of the structure are its root mapping and, recursively, the
\* mappings listed in a folder's Children.  Whether one of them has the
\* sentinel name as its Title:
RECURSIVE HasSentinelFolder(_)
HasSentinelFolder(v) ==
    /\ v.kind = "dict"
    /\ \/ IsSentinelFolder(v)
       \/ /\ HasKey(v, "Children")
          /\ v.fields["Children"].kind = "list"
          /\ \E k \in 1..Len(v.fields["Children"].items) :
                HasSentinelFolder(v.fields["Children"].items[k])

\* The first such folder in document order (pre-order), or PyNone.
RECURSIVE FirstSentinelFolder(_), FirstSentinelAmong(_, _)
FirstSentinelFolder(v) ==
    IF v.kind # "dict" THEN PyNone
    ELSE IF IsSentinelFolder(v) THEN v
    ELSE IF HasKey(v, "Children") /\ v.fields["Children"].kind = "list"
    THEN FirstSentinelAmong(v.fields["Children"].items, 1)
    ELSE PyNone
FirstSentinelAmong(items, k) ==
    IF k > Len(items) THEN PyNone
    ELSE LET f == FirstSentinelFolder(items[k])
         IN  IF f.kind # "none" THEN f ELSE FirstSentinelAmong(items, k + 1)

\* The immediate child entries of a folder that carry a URLString.
ChildEntries(folder) ==
    LET c == Get(folder, "Children", PList(<<>>))
        items == IF c.kind = "list" THEN c.items ELSE <<>>
    IN  SelectSeq(items, LAMBDA e : e.kind = "dict" /\ HasKey(e, "URLString"))

IsParsed(file) == file.kind \notin {"missing", "corrupt"}

\* C3: for a parsed structure without a sentinel folder, whatever its shape,
\* the extraction returns the empty sequence and does not raise.
C3_NoSentinelReturnsEmpty ==
    (exPc = "done" /\ IsParsed(plist) /\ ~HasSentinelFolder(plist))
        => exResult = Returned(<<>>)

\* Whether every Children value of the folder tree is a list.
RECURSIVE ChildrenAreLists(_)
ChildrenAreLists(v) ==
    \/ v.kind # "dict"
    \/ ~HasKey(v, "Children")
    \/ /\ v.fields["Children"].kind = "list"
       /\ \A k \in 1..Len(v.fields["Children"].items) :
             ChildrenAreLists(v.fields["Children"].items[k])

\* C4: with a sentinel folder in a structure of folders and child lists, the
\* extraction returns one pair per URLString-carrying child of the first
\* sentinel folder in document order, in the children's order, and of no
\* other folder.
C4_FirstSentinelChildren ==
    (exPc = "done" /\ IsParsed(plist) /\ ChildrenAreLists(plist)
        /\ HasSentinelFolder(plist))
        => /\ exResult.status = "returned"
           /\ LET expected == ChildEntries(FirstSentinelFolder(plist))
              IN  /\ Len(exResult.urls) = Len(expected)
                  /\ \A k \in 1..Len(expected) :
                        exResult.urls[k].url = expected[k].fields["URLString"].v

\* A title field supplies a title when it is present and not empty.
SuppliedTitle(entry, outer, inner) ==
    LET d == Get(entry, outer, PDict(NoFields))
        t == IF d.kind = "dict" THEN Get(d, inner, PStr("")) ELSE PStr("")
    IN  t.v

ClaimedTitle(entry) ==
    IF SuppliedTitle(entry, "URIDictionary", "title") # ""
    THEN SuppliedTitle(entry, "URIDictionary", "title")
    ELSE IF SuppliedTitle(entry, "ReadingList", "Title") # ""
    THEN SuppliedTitle(entry, "ReadingList", "Title")
    ELSE "Untitled"

\* The entries the returned pairs were built from.
SourceEntries ==
    LET found == find_reading_list(plist)
    IN  IF found.kind = "list"
        THEN SelectSeq(found.items, LAMBDA e : e.kind = "dict" /\ HasKey(e, "URLString"))
        ELSE <<>>

\* C5: every extracted bookmark_title is the first title available among
\* URIDictionary.title and ReadingList.Title, "Untitled" when neither
\* supplies one, and so never empty.
C5_TitleFallback ==
    (exPc = "done" /\ IsParsed(plist) /\ exResult.status = "returned")
        => \A k \in 1..Len(exResult.urls) :
              /\ exResult.urls[k].bookmark_title # ""
              /\ exResult.urls[k].bookmark_title = ClaimedTitle(SourceEntries[k])

(***************************************************************************)
(* scrape_recipe: one request, one record.                                 *)
(***************************************************************************)
UrlBad == "http://[bad"     \* urlparse rejects it: an unclosed IPv6 bracket

\* urlparse(url).netloc, on the URLs of the model.
urlparse_netloc(url) ==
    CASE url = UrlA   -> PStr("a.com")
      [] url = UrlB   -> PStr("b.org")
      [] url = UrlBad -> Raised("ValueError")
      [] OTHER        -> PStr("")

\* Text with line breaks, kept as its lines.
PText(lines) == [kind |-> "text", lines |-> lines]

\* What the recipe-scrapers collaborator can return for a fetched page.
PagePasta ==
    [title |-> PStr("Pasta"), host |-> PStr("example.com"),
     total_time |-> PInt(20), yields |-> PStr("4 servings"),
     ingredients |-> PList(<<PStr("pasta"), PStr("salt")>>),
     instructions |-> PText(<<"Boil", "Serve">>),
     image |-> PyNone, author |-> PStr("Unknown"),
     cuisine |-> PyNone, category |-> PyNone]
PageSoup ==
    [title |-> PStr("Soup"), host |-> PStr("b.org"),
     total_time |-> PyNone, yields |-> PyNone,
     ingredients |-> PList(<<PStr("leek")>>),
     instructions |-> PText(<<"Simmer">>),
     image |-> PStr("http://b.org/soup.jpg"), author |-> PStr("Ana"),
     cuisine |-> PStr("French"), category |-> PStr("Dinner")]
Pages == {PagePasta, PageSoup}

\* How the body of the try block ends: requests.get / raise_for_status
\* raises, scrape_html or a scraper method raises, or every field is read.
\* A URL that urlparse rejects cannot be fetched.
FetchError == [kind |-> "fetch_error", msg |-> "404 Client Error", page |-> PagePasta]
ParseError == [kind |-> "parse_error", msg |-> "no recipe schema", page |-> PagePasta]
Parsed(p) == [kind |-> "parsed", msg |-> "", page |-> p]
Outcomes(url) ==
    {FetchError}
    \cup (IF urlparse_netloc(url).kind = "raise" THEN {}
          ELSE {ParseError} \cup {Parsed(p) : p \in Pages})

\* The record of the try block (lines 98-113).
success_record(url, bookmark_title, page) ==
    [title |-> page.title,
     url |-> PStr(url),
     bookmark_title |-> PStr(bookmark_title),
     host |-> page.host,
     total_time |-> page.total_time,
     yields |-> page.yields,
     ingredients |-> page.ingredients,
     instructions |-> page.instructions,
     image |-> page.image,
     author |-> page.author,
     cuisine |-> page.cuisine,
     category |-> page.category,
     scraped_successfully |-> PBool(TRUE),
     error |-> PyNone]

\* A failure record that also carries an (empty) ingredients list.
failure_record_with_ingredients(url, bookmark_title, host, msg) ==
    [title |-> PStr(IF bookmark_title # "" THEN bookmark_title ELSE "Unknown Recipe"),
     url |-> PStr(url),
     bookmark_title |-> PStr(bookmark_title),
     host |-> host,
     ingredients |-> PList(<<>>),
     scraped_successfully |-> PBool(FALSE),
     error |-> PStr(msg)]

\* The record of the except block (lines 120-127), given the host.
failure_record(url, bookmark_title, host, msg) ==
    [title |-> PStr(IF bookmark_title # "" THEN bookmark_title ELSE "Unknown Recipe"),
     url |-> PStr(url),
     bookmark_title |-> PStr(bookmark_title),
     host |-> host,
     scraped_successfully |-> PBool(FALSE),
     error |-> PStr(msg)]

\* scrape_recipe(url, bookmark_title) when the try block ends as `outcome`:
\* a record, or the exception the except block itself raises.
scrape_recipe(url, bookmark_title, outcome) ==
    IF outcome.kind = "parsed"
    THEN Return(success_record(url, bookmark_title, outcome.page))
    ELSE LET host == urlparse_netloc(url)
         IN  IF host.kind = "raise" THEN host
             ELSE Return(failure_record(url, bookmark_title, host, outcome.msg))

(***************************************************************************)
(* The store file and main of scrape_recipes.py.                           *)
(***************************************************************************)
StoreAbsent == [exists |-> FALSE, records |-> <<>>]
StoreOf(rs) == [exists |-> TRUE, records |-> rs]

\* json.dump followed by json.load gives back the same strings, numbers,
\* booleans, nulls, lists and mappings, so the store holds the records.
save_recipes(rs) == StoreOf(rs)

Event(op, i) == [op |-> op, i |-> i]

BookmarkUrls == {UrlA, UrlBad}
BookmarkTitles == {"", "Pasta"}
Bookmarks == [url : BookmarkUrls, bookmark_title : BookmarkTitles]

\* What data/recipes.json can hold before a run: nothing, an empty array,
\* or the records of an earlier run.
PriorStores ==
    {StoreAbsent, StoreOf(<<>>), StoreOf(<<success_record(UrlB, "Soup", PageSoup)>>)}

\* if not bookmarks: return
MainNoBookmarks ==
    /\ fpc = "start"
    /\ bookmarks = <<>>
    /\ fpc' = "done"
    /\ UNCHANGED <<bookmarks, idx, recipes, log, store, exVars, genVars, uiVars>>

\* scrape_all_recipes: recipes = []
MainBegin ==
    /\ fpc = "start"
    /\ bookmarks # <<>>
    /\ recipes' = <<>>
    /\ idx' = 1
    /\ fpc' = "scrape"
    /\ UNCHANGED <<bookmarks, log, store, exVars, genVars, uiVars>>

\* recipe = scrape_recipe(bookmark['url'], bookmark['bookmark_title'])
\* recipes.append(recipe)
ScrapeOne(outcome) ==
    /\ fpc = "scrape"
    /\ idx <= Len(bookmarks)
    /\ outcome \in Outcomes(bookmarks[idx].url)
    /\ LET recipe == scrape_recipe(bookmarks[idx].url,
                                   bookmarks[idx].bookmark_title, outcome)
       IN  /\ log' = Append(log, Event("get", idx))
           /\ IF recipe.kind = "raise"
              THEN /\ fpc' = "crashed"
                   /\ UNCHANGED recipes
              ELSE /\ fpc' = "sleep"
                   /\ recipes' = Append(recipes, recipe.value)
    /\ UNCHANGED <<bookmarks, idx, store, exVars, genVars, uiVars>>

\* time.sleep(1), then the next iteration or the end of the loop
Sleep ==
    /\ fpc = "sleep"
    /\ log' = Append(log, Event("sleep", idx))
    /\ idx' = idx + 1
    /\ fpc' = IF idx + 1 > Len(bookmarks) THEN "save" ELSE "scrape"
    /\ UNCHANGED <<bookmarks, recipes, store, exVars, genVars, uiVars>>

\* save_recipes(recipes, OUTPUT_FILE)
Save ==
    /\ fpc = "save"
    /\ store' = save_recipes(recipes)
    /\ log' = Append(log, Event("write", 0))
    /\ fpc' = "done"
    /\ UNCHANGED <<bookmarks, idx, recipes, exVars, genVars, uiVars>>

(***************************************************************************)
(* generate_site.py: loading the store and rendering the page.  A document *)
(* is kept as its parts (cards, detail panels, embedded JSON, count and    *)
(* the generation time written into the script), not as one string.        *)
(***************************************************************************)
\* recipe.get(k, default)
RGet(recipe, k, default) == IF k \in DOMAIN recipe THEN recipe[k] ELSE default

\* a or b
OrElse(a, b) == IF Truthy(a) THEN a ELSE b

PlaceholderCard == "https://via.placeholder.com/400x300?text=No+Image"
PlaceholderDetail == "https://via.placeholder.com/800x600?text=No+Image"

\* Loading without the filter on scraped_successfully.
load_recipes_unfiltered(st) == IF ~st.exists THEN <<>> ELSE st.records

load_recipes(st) ==
    IF ~st.exists THEN <<>>
    ELSE SelectSeq(st.records,
                   LAMBDA r : Truthy(RGet(r, "scraped_successfully", PyNone)))

generate_recipe_card_html(recipe, index) ==
    LET total_time == RGet(recipe, "total_time", PInt(0))
        yields == RGet(recipe, "yields", PStr(""))
    IN  [index |-> index,
         image |-> OrElse(RGet(recipe, "image", PyNone), PStr(PlaceholderCard)),
         title |-> RGet(recipe, "title", PStr("Untitled Recipe")),
         host |-> RGet(recipe, "host", PStr("")),
         time |-> IF Truthy(total_time) THEN <<total_time, " min">> ELSE <<>>,
         yields |-> IF Truthy(yields) THEN <<yields>> ELSE <<>>]

\* instructions.replace(chr(10), '<br><br>')
RECURSIVE replace_newlines(_)
replace_newlines(lines) ==
    IF Len(lines) <= 1 THEN lines
    ELSE <<Head(lines), "<br><br>">> \o replace_newlines(Tail(lines))

generate_recipe_detail_html(recipe, index) ==
    LET total_time == RGet(recipe, "total_time", PyNone)
        yields == RGet(recipe, "yields", PyNone)
        author == RGet(recipe, "author", PyNone)
        instructions == RGet(recipe, "instructions",
                             PText(<<"No instructions available">>))
    IN  [index |-> index,
         display |-> "none",
         title |-> RGet(recipe, "title", PStr("Untitled Recipe")),
         image |-> OrElse(RGet(recipe, "image", PyNone), PStr(PlaceholderDetail)),
         time |-> IF Truthy(total_time) THEN <<total_time, " min">> ELSE <<>>,
         servings |-> IF Truthy(yields) THEN <<yields>> ELSE <<>>,
         author |-> IF Truthy(author) /\ author.v # "Unknown" THEN <<author>> ELSE <<>>,
         ingredients |-> RGet(recipe, "ingredients", PList(<<>>)).items,
         instructions |-> replace_newlines(instructions.lines),
         source |-> RGet(recipe, "url", PyNone)]

\* The projection embedded for the page's script.
recipe_json(recipe) ==
    [title |-> RGet(recipe, "title", PStr("")),
     host |-> RGet(recipe, "host", PStr("")),
     ingredients |-> RGet(recipe, "ingredients", PList(<<>>)),
     category |-> RGet(recipe, "category", PStr("")),
     cuisine |-> RGet(recipe, "cuisine", PStr(""))]

\* A page that also shows the generation time in its visible count line.
generate_html_stamped(rs, now) ==
    [cards |-> [k \in 1..Len(rs) |-> generate_recipe_card_html(rs[k], k - 1)],
     details |-> [k \in 1..Len(rs) |-> generate_recipe_detail_html(rs[k], k - 1)],
     recipes_json |-> [k \in 1..Len(rs) |-> recipe_json(rs[k])],
     count |-> Len(rs) + now,
     generated |-> now]

\* generate_html(recipes), called when datetime.now() is `now`.
generate_html(rs, now) ==
    [cards |-> [k \in 1..Len(rs) |-> generate_recipe_card_html(rs[k], k - 1)],
     details |-> [k \in 1..Len(rs) |-> generate_recipe_detail_html(rs[k], k - 1)],
     recipes_json |-> [k \in 1..Len(rs) |-> recipe_json(rs[k])],
     count |-> Len(rs),
     generated |-> now]

SiteAbsent == [exists |-> FALSE, html |-> generate_html(<<>>, 0)]
SiteOf(html) == [exists |-> TRUE, html |-> html]

GenNotRun == [ran |-> FALSE, wrote |-> FALSE, raised |-> FALSE, messages |-> <<>>]
GenEnded(wrote, messages) ==
    [ran |-> TRUE, wrote |-> wrote, raised |-> FALSE, messages |-> messages]

\* main of generate_site.py, run when the clock reads `now`.
GenMain(now) ==
    /\ now >= clock
    /\ clock' = now
    /\ LET rs == load_recipes(store)
       IN  IF Len(rs) = 0
           THEN /\ genOut' = GenEnded(FALSE,
                      IF store.exists
                      THEN <<"Loaded 0 recipes", "No recipes to generate site from">>
                      ELSE <<"recipes.json not found", "No recipes to generate site from">>)
                /\ UNCHANGED <<site, renders>>
           ELSE /\ site' = SiteOf(generate_html(rs, now))
                /\ renders' = renders \cup {[input |-> rs, html |-> generate_html(rs, now)]}
                /\ genOut' = GenEnded(TRUE, <<"Loaded recipes", "Site generated">>)
    /\ UNCHANGED <<exVars, fetchVars, store, uiVars>>

(***************************************************************************)
(* The generated page's script.  Strings are sequences of characters, so   *)
(* that lower-casing, joining and substring search are computed.           *)
(***************************************************************************)
JStr(chars) == [kind |-> "str", chars |-> chars]
JNull == [kind |-> "null", chars |-> <<>>]

UpperCase == <<"A", "B", "C", "D", "E", "F", "G", "H", "I", "J", "K", "L", "M",
               "N", "O", "P", "Q", "R", "S", "T", "U", "V", "W", "X", "Y", "Z">>
LowerCase == <<"a", "b", "c", "d", "e", "f", "g", "h", "i", "j", "k", "l", "m",
               "n", "o", "p", "q", "r", "s", "t", "u", "v", "w", "x", "y", "z">>

\* String.prototype.toLowerCase
toLowerCase(chars) ==
    [k \in 1..Len(chars) |->
        IF \E u \in 1..Len(UpperCase) : UpperCase[u] = chars[k]
        THEN LowerCase[CHOOSE u \in 1..Len(UpperCase) : UpperCase[u] = chars[k]]
        ELSE chars[k]]

\* Array.prototype.join(' '): null elements are joined as empty strings.
RECURSIVE join(_)
join(parts) ==
    IF Len(parts) = 0 THEN <<>>
    ELSE IF Len(parts) = 1 THEN parts[1].chars
    ELSE parts[1].chars \o <<" ">> \o join(Tail(parts))

\* String.prototype.includes
includes(text, term) ==
    \E k \in 0..(Len(text) - Len(term)) : SubSeq(text, k + 1, k + Len(term)) = term

\* a || ''
OrEmpty(a) == IF a.kind = "null" \/ a.chars = <<>> THEN JStr(<<>>) ELSE a

\* The haystack without the lower-casing.
searchableText_case_kept(recipe) ==
    join(<<recipe.title, recipe.host, OrEmpty(recipe.category),
           OrEmpty(recipe.cuisine)>> \o recipe.ingredients)

\* [title, host, category || '', cuisine || '', ...ingredients]
\*     .join(' ').toLowerCase()
searchableText(recipe) ==
    toLowerCase(join(<<recipe.title, recipe.host, OrEmpty(recipe.category),
                       OrEmpty(recipe.cuisine)>> \o recipe.ingredients))

\* What the user sees.
GridVisible == gridDisplay # "none"
CardVisible(k) == GridVisible /\ cardDisplay[k] # "none"
DetailVisible(k) == recipeDetailDisplay # "none" /\ detailDisplay[k] # "none"
NoResultsVisible == noResultsDisplay # "none"
View ==
    [grid |-> GridVisible,
     cards |-> {k \in 1..Len(recipesData) : CardVisible(k)},
     details |-> {k \in 1..Len(recipesData) : DetailVisible(k)},
     noResults |-> NoResultsVisible,
     count |-> recipeCount]

BlankView ==
    [grid |-> TRUE, cards |-> {}, details |-> {}, noResults |-> FALSE,
     count |-> [n |-> 0, word |-> "recipes"]]
Loaded == [last |-> "load", prev |-> "load", k |-> 0, view |-> BlankView]

\* The page as loaded: the grid and every card shown by the stylesheet,
\* #recipeDetail, each panel and the placeholder hidden inline, and the
\* count rendered as "{len(recipes)} recipes".
PageLoaded(data) ==
    /\ recipesData = data
    /\ searchValue = <<>>
    /\ cardDisplay = [k \in 1..Len(data) |-> ""]
    /\ gridDisplay = ""
    /\ recipeDetailDisplay = "none"
    /\ detailDisplay = [k \in 1..Len(data) |-> "none"]
    /\ noResultsDisplay = "none"
    /\ recipeCount = [n |-> Len(data), word |-> "recipes"]
    /\ history = Loaded

\* searchInput's 'input' listener, the field now holding `value`.
SearchInput(value) ==
    /\ Len(recipesData) > 0
    /\ value # searchValue
    /\ searchValue' = value
    /\ LET searchTerm == toLowerCase(value)
           matching == {k \in 1..Len(recipesData) :
                           includes(searchableText(recipesData[k]), searchTerm)}
           visibleCount == Cardinality(matching)
       IN  /\ cardDisplay' = [k \in 1..Len(recipesData) |->
                                 IF k \in matching THEN "block" ELSE "none"]
           /\ recipeCount' = [n |-> visibleCount,
                              word |-> IF visibleCount # 1 THEN "recipes" ELSE "recipe"]
           /\ noResultsDisplay' = IF visibleCount = 0 THEN "block" ELSE "none"
           /\ gridDisplay' = IF visibleCount = 0 THEN "none" ELSE "grid"
    /\ history' = [last |-> "search", prev |-> history.last, k |-> 0, view |-> BlankView]
    /\ UNCHANGED <<recipesData, recipeDetailDisplay, detailDisplay>>
    /\ UNCHANGED <<exVars, fetchVars, store, genVars>>

\* A click on card k (a card that is on screen): openRecipe(index).
ClickCard(k) ==
    /\ k \in 1..Len(recipesData)
    /\ CardVisible(k)
    /\ gridDisplay' = "none"
    /\ recipeDetailDisplay' = "block"
    /\ detailDisplay' = [detailDisplay EXCEPT ![k] = "block"]
    /\ history' = [last |-> "click", prev |-> history.last, k |-> k, view |-> View]
    /\ UNCHANGED <<recipesData, searchValue, cardDisplay, noResultsDisplay, recipeCount>>
    /\ UNCHANGED <<exVars, fetchVars, store, genVars>>

\* A click on the back button of a panel that is on screen: closeRecipe().
Back ==
    /\ \E k \in 1..Len(recipesData) : DetailVisible(k)
    /\ recipeDetailDisplay' = "none"
    /\ detailDisplay' = [k \in 1..Len(recipesData) |-> "none"]
    /\ gridDisplay' = "grid"
    /\ history' = [last |-> "back", prev |-> history.last, k |-> 0, view |-> history.view]
    /\ UNCHANGED <<recipesData, searchValue, cardDisplay, noResultsDisplay, recipeCount>>
    /\ UNCHANGED <<exVars, fetchVars, store, genVars>>

UIIdle == PageLoaded(<<>>)

(***************************************************************************)
(* The fetch run and the generator, two entry points sharing the store.    *)
(***************************************************************************)
ExtractIdle ==
    /\ plist = FileMissing
    /\ exPc = "idle"
    /\ exResult = [status |-> "none", urls |-> <<>>, exc |-> ""]

FetchIdle ==
    /\ bookmarks = <<>>
    /\ fpc = "idle"
    /\ idx = 0
    /\ recipes = <<>>
    /\ log = <<>>
    /\ store = StoreAbsent

GenIdle ==
    /\ site = SiteAbsent
    /\ genOut = GenNotRun
    /\ clock = 0
    /\ renders = {}

Init ==
    /\ ExtractIdle
    /\ bookmarks \in SeqsUpTo(Bookmarks, MaxBookmarks)
    /\ fpc = "start"
    /\ idx = 0
    /\ recipes = <<>>
    /\ log = <<>>
    /\ store \in PriorStores
    /\ GenIdle
    /\ UIIdle

Next ==
    \/ MainNoBookmarks
    \/ MainBegin
    \/ \E outcome \in {FetchError, ParseError} \cup {Parsed(p) : p \in Pages} :
          ScrapeOne(outcome)
    \/ Sleep
    \/ Save
    \/ \E now \in 1..MaxClock : GenMain(now)

Spec == Init /\ [][Next]_vars

(***************************************************************************)
(* Extraction as a state machine: the file is read and the function        *)
(* returns a sequence of bookmarks or raises.                              *)
(***************************************************************************)
InitExtract ==
    /\ plist \in {FileMissing, FileCorrupt} \cup Plists
    /\ exPc = "start"
    /\ exResult = [status |-> "none", urls |-> <<>>, exc |-> ""]
    /\ FetchIdle
    /\ GenIdle
    /\ UIIdle

Extract ==
    /\ exPc = "start"
    /\ exResult' = extract_urls_from_safari_reading_list(plist)
    /\ exPc' = "done"
    /\ UNCHANGED <<plist, fetchVars, store, genVars, uiVars>>

NextExtract == Extract

SpecExtract == InitExtract /\ [][NextExtract]_vars


(***************************************************************************)
(* Claims about the fetch run and the generator.                           *)
(***************************************************************************)
IsFlag(v) == v.kind = "bool"

\* C1: the batch never ends by raising, and once scrape_all_recipes has
\* returned there is one record per bookmark, record k built from bookmark
\* k, each with scraped_successfully set.
C1_OneRecordPerBookmark ==
    /\ fpc # "crashed"
    /\ fpc \in {"save", "done"} /\ bookmarks # <<>>
        => /\ Len(recipes) = Len(bookmarks)
           /\ \A k \in 1..Len(bookmarks) :
                 /\ recipes[k].url = PStr(bookmarks[k].url)
                 /\ recipes[k].bookmark_title = PStr(bookmarks[k].bookmark_title)
                 /\ IsFlag(recipes[k].scraped_successfully)

FailureKeys == {"title", "url", "bookmark_title", "host", "scraped_successfully", "error"}

\* C2: in every record scrape_recipe produced, error is a string exactly
\* when scraped_successfully is false, and a failed record has the six
\* failure fields and no other.
C2_RecordShape ==
    \A k \in 1..Len(recipes) :
        LET r == recipes[k]
        IN  /\ IsFlag(r.scraped_successfully)
            /\ (r.error.kind = "str") <=> (r.scraped_successfully.v = FALSE)
            /\ r.error.kind \in {"str", "none"}
            /\ r.scraped_successfully.v = FALSE => DOMAIN r = FailureKeys

C2_Witness ==
    /\ Len(recipes) = 2
    /\ recipes[1].scraped_successfully.v = FALSE
    /\ recipes[2].scraped_successfully.v = TRUE

HasSuccess(st) ==
    /\ st.exists
    /\ \E k \in 1..Len(st.records) : st.records[k].scraped_successfully.v = TRUE

\* C6: a run of the generator's main writes the site only from a store that
\* exists and holds a successful record; otherwise it reports a message,
\* leaves the site file alone and ends without raising.
C6_SiteOnlyFromSuccess ==
    [][(\E now \in 1..MaxClock : GenMain(now))
        => /\ (genOut'.wrote \/ site' # site) => HasSuccess(store)
           /\ ~HasSuccess(store)
                => /\ site' = site
                   /\ ~genOut'.wrote
                   /\ ~genOut'.raised
                   /\ Len(genOut'.messages) > 0]_vars

C6_Witness ==
    /\ fpc = "done"
    /\ store.exists
    /\ Len(store.records) > 0
    /\ ~HasSuccess(store)
    /\ genOut.ran
    /\ genOut.messages[1] = "Loaded 0 recipes"
    /\ ~site.exists

\* C9 as stated: two renderings of the same record sequence are the same
\* document.
C9_SameDocument ==
    \A a \in renders : \A b \in renders :
        a.input = b.input => a.html = b.html

WithoutTimestamp(html) == [html EXCEPT !.generated = 0]

\* C9 as amended: two renderings of the same record sequence differ at most
\* in the generation time written into the page's script.
C9_SameUpToTimestamp ==
    \A a \in renders : \A b \in renders :
        a.input = b.input => WithoutTimestamp(a.html) = WithoutTimestamp(b.html)

C9_Witness ==
    \E a \in renders : \E b \in renders :
        /\ a.input = b.input
        /\ a.html.generated # b.html.generated

\* The effects of a complete run over n bookmarks: request k, then the
\* pacing delay, for k = 1..n in order, then one write of the store.
RECURSIVE RequestsUpTo(_)
RequestsUpTo(n) ==
    IF n = 0 THEN <<>>
    ELSE RequestsUpTo(n - 1) \o <<Event("get", n), Event("sleep", n)>>
ExpectedLog(n) == IF n = 0 THEN <<>> ELSE Append(RequestsUpTo(n), Event("write", 0))

IsPrefix(a, b) == Len(a) <= Len(b) /\ \A k \in 1..Len(a) : a[k] = b[k]

\* C10: a run requests each bookmark's URL once, in input order, with the
\* pacing delay after each request, and writes the store once, after the
\* last bookmark; with no bookmarks it requests and writes nothing.
C10_OneRequestEachThenOneWrite ==
    /\ IsPrefix(log, ExpectedLog(Len(bookmarks)))
    /\ fpc \in {"done", "crashed"} => log = ExpectedLog(Len(bookmarks))

(***************************************************************************)
(* The page in a browser: search, card clicks and the back button.         *)
(***************************************************************************)
Chars_salt == <<"s", "a", "l", "t">>
RecipePasta ==
    [title |-> JStr(<<"P", "a", "s", "t", "a">>),
     host |-> JStr(<<"e", "x", ".", "c", "o", "m">>),
     ingredients |-> <<JStr(<<"p", "a", "s", "t", "a">>), JStr(Chars_salt)>>,
     category |-> JNull, cuisine |-> JNull]
RecipeSoup ==
    [title |-> JStr(<<"S", "o", "u", "p">>),
     host |-> JStr(<<"b", ".", "o", "r", "g">>),
     ingredients |-> <<JStr(<<"L", "e", "e", "k">>)>>,
     category |-> JStr(<<"D", "i", "n", "n", "e", "r">>),
     cuisine |-> JStr(<<"F", "r", "e", "n", "c", "h">>)]
RecipeTea ==
    [title |-> JStr(<<"T", "e", "a">>),
     host |-> JStr(<<"t", ".", "i", "o">>),
     ingredients |-> <<>>,
     category |-> JStr(<<>>), cuisine |-> JNull]
PageRecipes == {RecipePasta, RecipeSoup, RecipeTea}

Queries ==
    {<<>>, Chars_salt, <<"S", "A", "L">>, <<"c", "h", "i", "c", "k", "e", "n">>,
     <<"a", " ", "e">>, <<"f", "r", "e", "n">>, <<"r", " ", "f">>}

InitUI ==
    /\ ExtractIdle
    /\ FetchIdle
    /\ GenIdle
    /\ \E data \in SeqsUpTo(PageRecipes, MaxRecipes) :
          /\ Len(data) > 0
          /\ PageLoaded(data)

NextUI ==
    \/ \E value \in Queries : SearchInput(value)
    \/ \E k \in 1..MaxRecipes + 1 : ClickCard(k)
    \/ Back

SpecUI == InitUI /\ [][NextUI]_vars

\* The haystack of the claim: title, host, category, cuisine and the
\* ingredients, absent ones empty, joined by single spaces.
RECURSIVE SpaceJoined(_)
SpaceJoined(strings) ==
    IF Len(strings) = 0 THEN <<>>
    ELSE IF Len(strings) = 1 THEN strings[1]
    ELSE strings[1] \o <<" ">> \o SpaceJoined(Tail(strings))
TextOf(v) == IF v.kind = "null" THEN <<>> ELSE v.chars
Haystack(recipe) ==
    SpaceJoined(<<TextOf(recipe.title), TextOf(recipe.host), TextOf(recipe.category),
                  TextOf(recipe.cuisine)>>
                \o [k \in 1..Len(recipe.ingredients) |-> TextOf(recipe.ingredients[k])])
IsSubstring(term, text) ==
    \E a \in 0..Len(text) : \E b \in a..Len(text) :
        [k \in 1..(b - a) |-> text[a + k]] = term

Matches(k) ==
    IsSubstring(toLowerCase(searchValue), toLowerCase(Haystack(recipesData[k])))

SearchShowsMatches ==
    /\ \A k \in 1..Len(recipesData) : CardVisible(k) <=> Matches(k)
    /\ recipeCount.n = Cardinality({k \in 1..Len(recipesData) : CardVisible(k)})
    /\ NoResultsVisible <=> Cardinality({k \in 1..Len(recipesData) : CardVisible(k)}) = 0

\* C7: after every search-input event, card k is shown iff the lower-cased
\* query is a substring of recipe k's lower-cased haystack, the displayed
\* count is the number of cards shown, and the placeholder is shown iff
\* that number is zero.
C7_SearchShowsMatches ==
    history.last = "search" => SearchShowsMatches

C7_Witness ==
    /\ history.last = "search"
    /\ Len(recipesData) = 2
    /\ searchValue = <<"S", "A", "L">>
    /\ CardVisible(1)
    /\ ~CardVisible(2)
    /\ recipeCount = [n |-> 1, word |-> "recipe"]
    /\ ~NoResultsVisible

\* C8: a click on card k hides the grid and shows panel k; the back action
\* that follows leaves the grid visible and every panel hidden, the page
\* being back in the view the click started from.
C8_BackRestoresView ==
    /\ history.last = "click"
        => ~GridVisible /\ DetailVisible(history.k)
    /\ (history.last = "back" /\ history.prev = "click")
        => /\ GridVisible
           /\ \A k \in 1..Len(recipesData) : ~DetailVisible(k)
           /\ View = history.view

VisibleDetails == {k \in 1..Len(recipesData) : DetailVisible(k)}

\* C11: in every state of the page reached by search-input, card-click and
\* back events, the recipe grid and a detail panel are never visible at the
\* same time, and at most one detail panel is visible.
C11_GridOrOneDetail ==
    /\ ~(GridVisible /\ VisibleDetails # {})
    /\ Cardinality(VisibleDetails) <= 1

====
